---------------------------- MODULE Spec2Model ----------------------------
(***************************************************************************)
(* Model of go_http.contacts.ContactsApiClient (src/go_http/contacts.py)   *)
(* and of the fake contacts server its tests run it against                *)
(* (src/go_http/tests/test_contacts.py).                                   *)
(*                                                                         *)
(* Strings that the code builds or takes apart (URLs, paths) are sequences *)
(* of tokens: a token is "/" , a query prefix such as "?cursor=", or a     *)
(* name without a slash.  Formatting, stripping and replacing are computed *)
(* on these sequences as Python computes them on the characters.           *)
(***************************************************************************)
EXTENDS Integers, Sequences, FiniteSets, TLC

(***************************************************************************)
(* Bounds of the model.                                                    *)
(***************************************************************************)
\* most items the paged server puts in one page
MaxItems == 2
\* most page requests followed within one contacts() call
MaxReq == 3


\* Python's None
None == "None"

\* how many cursor strings the paged server issues
NCursors == 2

\* the cursor strings the paged server issues
CursorNames == <<"c1", "c2", "c3", "c4">>
Cursors == {CursorNames[i] : i \in 1..NCursors}

\* what a caller passes as start_cursor: nothing, the empty string, a cursor
StartCursors == {None, "", "c1"}

(***************************************************************************)
(* String helpers (Python str methods on token sequences).                 *)
(***************************************************************************)
RECURSIVE RStrip(_)
\* s.rstrip('/')
RStrip(s) ==
    IF s # <<>> /\ s[Len(s)] = "/" THEN RStrip(SubSeq(s, 1, Len(s) - 1)) ELSE s

RECURSIVE LStrip(_)
\* s.lstrip('/')
LStrip(s) ==
    IF s # <<>> /\ s[1] = "/" THEN LStrip(Tail(s)) ELSE s

\* s.startswith(p)
StartsWith(s, p) == Len(p) <= Len(s) /\ SubSeq(s, 1, Len(p)) = p

RECURSIVE Remove(_, _)
\* s.replace(sub, ""): every non-overlapping occurrence, left to right
Remove(s, sub) ==
    IF s = <<>> THEN <<>>
    ELSE IF StartsWith(s, sub) THEN Remove(SubSeq(s, Len(sub) + 1, Len(s)), sub)
    ELSE <<s[1]>> \o Remove(Tail(s), sub)

\* "%s/%s/%s" % (a, b, c)
Format3(a, b, c) == a \o <<"/">> \o b \o <<"/">> \o c

\* Python truthiness of an optional string: None and "" are false
Truthy(v) == v # None /\ v # ""

(***************************************************************************)
(* Exceptions and transport responses.                                     *)
(***************************************************************************)
NoExc == [type |-> "none", status |-> 0, cursor |-> None]
\* requests.HTTPError raised by raise_for_status; it has no cursor attribute
HTTPError(status) == [type |-> "HTTPError", status |-> status, cursor |-> None]
\* a network failure raised by session.request
ConnectionError == [type |-> "ConnectionError", status |-> 0, cursor |-> None]
\* r.json() on a body that is not JSON
ValueError == [type |-> "ValueError", status |-> 0, cursor |-> None]

\* bodies: JSON text of a value, or text that is not JSON
JsonBody(v) == [json |-> TRUE, value |-> v]
BadBody == [json |-> FALSE, value |-> None]

Response(status, body) == [kind |-> "response", status |-> status, body |-> body]
NetError == [kind |-> "neterror", status |-> 0, body |-> BadBody]

\* mutant: every status outside [200,300) is an error
RaisesOutside2xx(status) == status < 200 \/ status >= 300

\* requests.Response.raise_for_status raises for client and server errors
RaisesForStatus(status) == 400 <= status /\ status < 600

\* ContactsApiClient._api_request, from the transport's answer onwards:
\* raise_for_status(), then r.json()
ApiResult(resp) ==
    IF resp.kind = "neterror"
    THEN [raised |-> TRUE, exc |-> ConnectionError, value |-> None]
    ELSE IF RaisesForStatus(resp.status)
    THEN [raised |-> TRUE, exc |-> HTTPError(resp.status), value |-> None]
    ELSE IF ~resp.body.json
    THEN [raised |-> TRUE, exc |-> ValueError, value |-> None]
    ELSE [raised |-> FALSE, exc |-> NoExc, value |-> resp.body.value]

\* data=None and params=None, the defaults of _api_request
NoData == [haskey |-> FALSE, key |-> None, name |-> None]
NoParams == <<>>

\* requests puts params={'query': q} behind the URL as ?query=<q>
WithParams(url, params) ==
    IF params = NoParams THEN url ELSE url \o <<"?query=">> \o params

\* the request _api_request hands to session.request: the formatted URL,
\* the bearer header, the data as JSON text when there is data
ApiRequest(api_url, token, method, api_collection, api_path, data, params) ==
    [method |-> method,
     url |-> WithParams(Format3(api_url, <<api_collection>>, api_path), params),
     auth |-> <<"Bearer", token>>,
     data |-> IF data = NoData THEN BadBody ELSE JsonBody(data)]


(***************************************************************************)
(* The paged server: a collection served page by page.  A request without *)
(* a cursor parameter gets the first page, a request with ?cursor=c the    *)
(* page named c.  A page is fixed the first time it is served and served   *)
(* unchanged from then on; any request may instead fail in the transport.  *)
(***************************************************************************)
PageKeys == {None} \union Cursors

\* the items of the page named c: n distinct records
Items(c, n) == [i \in 1..n |-> <<c, i>>]

\* the pages the server may hold under the name c
PagesFor(c) ==
    {[data |-> Items(c, n), cursor |-> nx] :
        n \in 0..MaxItems, nx \in {None} \union Cursors}

Unserved == [known |-> FALSE, data |-> <<>>, cursor |-> None]
Served(p) == [known |-> TRUE, data |-> p.data, cursor |-> p.cursor]
PageOf(e) == [data |-> e.data, cursor |-> e.cursor]

\* the cursor parameter of a list request's URL, None when it has none
CursorParam(url) ==
    IF Len(url) >= 2 /\ url[Len(url) - 1] = "?cursor="
    THEN url[Len(url)] ELSE None

\* the failures a page request can meet: no connection, an error status,
\* a body that is not JSON
Faults == {NetError, Response(500, BadBody), Response(200, BadBody)}

\* the answers of the paged server to a request, each with the server after it
PagedServer(s, req) ==
    LET c == CursorParam(req.url) IN
    (IF s[c].known
     THEN {[resp |-> Response(200, JsonBody(PageOf(s[c]))), srv |-> s]}
     ELSE {[resp |-> Response(200, JsonBody(p)),
            srv |-> [s EXCEPT ![c] = Served(p)]] : p \in PagesFor(c)})
    \union {[resp |-> f, srv |-> s] : f \in Faults}

(***************************************************************************)
(* State.                                                                  *)
(***************************************************************************)
VARIABLES
    srv,            \* the paged server's pages, by name
    start_cursor,   \* contacts(start_cursor)
    pc,             \* the generator: "idle" (not created), "start" (created,
                    \* no code run), "loop" (inside while True), "done"
                    \* (StopIteration), "failed" (an exception left it)
    running,        \* TRUE while a next() call of the consumer is executing
    page,           \* the local variable page
    idx,            \* how many items of page['data'] the for loop has taken
    reqs,           \* the requests given to session.request by this call
    recv,           \* the pages decoded by this call, in order
    out,            \* the contacts yielded by this call, in order
    exc,            \* the exception that left the generator
    asked,          \* how many times the consumer called next()
    run,            \* "first", or "resumed" after a failed first call
    first,          \* the first call once it failed: what it yielded and raised
    api_calls,      \* how many times _api_request was entered
    transport_calls,\* how many times it called session.request
    api_last,       \* the last _api_request: request, answer and outcome
    contacts_data,  \* FakeContactsApi.contacts_data: the server's contact store
    client,         \* the ContactsApiClient of the tests: token and api_url
    last            \* the client's last operation against the fake server

pagedVars == <<srv, start_cursor, pc, running, page, idx, reqs, recv, out,
               exc, asked, run, first>>

reqVars == <<api_calls, transport_calls, api_last>>

crudVars == <<contacts_data, client, last>>

vars == <<pagedVars, reqVars, crudVars>>

\* ContactsApiClient.__init__ with the default api_url
DefaultApiUrl == <<"http://go.vumi.org", "/", "api", "/", "v1", "/", "go">>
ClientApiUrl == RStrip(DefaultApiUrl)
AuthToken == "auth_token"

NoPage == [data |-> <<>>, cursor |-> None]
NoFirst == [out |-> <<>>, exc |-> NoExc, start |-> None]

InitPaged ==
    /\ srv = [c \in PageKeys |-> Unserved]
    /\ start_cursor = None
    /\ pc = "idle"
    /\ running = FALSE
    /\ page = NoPage
    /\ idx = 0
    /\ reqs = <<>>
    /\ recv = <<>>
    /\ out = <<>>
    /\ exc = NoExc
    /\ asked = 0
    /\ run = "first"
    /\ first = NoFirst

\* "?cursor=%s" % cursor
CursorPath(cursor) == <<"?cursor=", cursor>>

\* the api_path of the first page request (contacts.py lines 69-73)
FirstPath(sc) == IF Truthy(sc) THEN CursorPath(sc) ELSE <<>>

\* mutant: the loop also ends at a page without items
IsLastPageOrEmpty(p) == p.cursor = None \/ p.data = <<>>

\* mutant: the loop ends at a page without items, whatever its cursor
IsEmptyPage(p) == p.data = <<>>

\* the test `page['cursor'] is None` that ends the while loop
IsLastPage(p) == p.cursor = None

\* page = self._api_request("GET", "contacts", path) inside the generator
FetchPage(path) ==
    LET req == ApiRequest(ClientApiUrl, AuthToken, "GET", "contacts", path, NoData, NoParams)
    IN  /\ Len(reqs) < MaxReq
        /\ \E a \in PagedServer(srv, req) :
             LET res == ApiResult(a.resp) IN
             /\ srv' = a.srv
             /\ reqs' = Append(reqs, req)
             /\ IF res.raised
                THEN /\ pc' = "failed"
                     /\ exc' = res.exc
                     /\ running' = FALSE
                     /\ UNCHANGED <<page, idx, recv>>
                ELSE /\ pc' = "loop"
                     /\ page' = res.value
                     /\ idx' = 0
                     /\ recv' = Append(recv, res.value)
                     /\ UNCHANGED <<exc, running>>
        /\ UNCHANGED <<start_cursor, out, asked, run, first>>
        /\ UNCHANGED <<reqVars, crudVars>>

\* client.contacts(start_cursor=sc): creates the generator, runs none of it
Contacts(sc) ==
    /\ pc = "idle"
    /\ pc' = "start"
    /\ start_cursor' = sc
    /\ UNCHANGED <<srv, running, page, idx, reqs, recv, out, exc, asked, run,
                   first>>
    /\ UNCHANGED <<reqVars, crudVars>>

\* the consumer asks for the next item: next(generator)
ConsumerNext ==
    /\ pc \in {"start", "loop"}
    /\ ~running
    /\ running' = TRUE
    /\ asked' = asked + 1
    /\ UNCHANGED <<srv, start_cursor, pc, page, idx, reqs, recv, out, exc,
                   run, first>>
    /\ UNCHANGED <<reqVars, crudVars>>

\* lines 69-73: the first page request
FirstPage ==
    /\ running
    /\ pc = "start"
    /\ FetchPage(FirstPath(start_cursor))

\* mutant: the generator goes on after handing out a contact
YieldContactNoSuspend ==
    /\ running
    /\ pc = "loop"
    /\ idx < Len(page.data)
    /\ out' = Append(out, page.data[idx + 1])
    /\ idx' = idx + 1
    /\ UNCHANGED <<srv, start_cursor, pc, page, reqs, recv, exc, asked, run,
                   first, running>>
    /\ UNCHANGED <<reqVars, crudVars>>

\* mutant: the for loop does not advance past the contact it yields
YieldContactAgain ==
    /\ running
    /\ pc = "loop"
    /\ idx < Len(page.data)
    /\ out' = Append(out, page.data[idx + 1])
    /\ idx' = IF Len(out) % 2 = 0 THEN idx ELSE idx + 1
    /\ running' = FALSE
    /\ UNCHANGED <<srv, start_cursor, pc, page, reqs, recv, exc, asked, run,
                   first>>
    /\ UNCHANGED <<reqVars, crudVars>>

\* lines 75-76: yield the next contact of the page and suspend
YieldContact ==
    /\ running
    /\ pc = "loop"
    /\ idx < Len(page.data)
    /\ out' = Append(out, page.data[idx + 1])
    /\ idx' = idx + 1
    /\ running' = FALSE
    /\ UNCHANGED <<srv, start_cursor, pc, page, reqs, recv, exc, asked, run,
                   first>>
    /\ UNCHANGED <<reqVars, crudVars>>

\* lines 77-78: the page is used up and has no cursor: break
EndOfPages ==
    /\ running
    /\ pc = "loop"
    /\ idx = Len(page.data)
    /\ IsLastPage(page)
    /\ pc' = "done"
    /\ running' = FALSE
    /\ UNCHANGED <<srv, start_cursor, page, idx, reqs, recv, out, exc, asked,
                   run, first>>
    /\ UNCHANGED <<reqVars, crudVars>>

\* lines 77-80: the page is used up and has a cursor: request the next page
NextPage ==
    /\ running
    /\ pc = "loop"
    /\ idx = Len(page.data)
    /\ ~IsLastPage(page)
    /\ FetchPage(CursorPath(page.cursor))

\* the cursor a caller can take from the exception to resume with
ReportedCursor(e) == IF e.type = "PagedException" THEN e.cursor ELSE None

\* the caller retries after a failure: contacts(start_cursor=<reported cursor>)
Resume ==
    /\ run = "first"
    /\ pc = "failed"
    /\ run' = "resumed"
    /\ first' = [out |-> out, exc |-> exc, start |-> start_cursor]
    /\ start_cursor' = ReportedCursor(exc)
    /\ pc' = "start"
    /\ page' = NoPage
    /\ idx' = 0
    /\ reqs' = <<>>
    /\ recv' = <<>>
    /\ out' = <<>>
    /\ exc' = NoExc
    /\ asked' = 0
    /\ UNCHANGED <<srv, running>>
    /\ UNCHANGED <<reqVars, crudVars>>

NextPaged ==
    \/ \E sc \in StartCursors : Contacts(sc)
    \/ ConsumerNext
    \/ FirstPage
    \/ YieldContact
    \/ EndOfPages
    \/ NextPage
    \/ Resume


(***************************************************************************)
(* _api_request on its own, against a transport that may answer anything.  *)
(***************************************************************************)
\* most _api_request invocations followed
MaxCalls == 2

Methods == {"GET", "POST", "PUT", "DELETE"}

\* status codes of every class, with the edges of the classes
Statuses == {100, 199, 200, 204, 299, 300, 304, 399, 400, 403, 404, 405, 499,
             500, 503, 599}

\* what a transport can answer: no answer, or a status with a JSON body or
\* with a body that is not JSON
AnyAnswers ==
    {NetError} \union
    {Response(st, b) : st \in Statuses, b \in {JsonBody("value"), BadBody}}

\* mutant: a failed request is sent a second time
AttemptsWithRetry(resp) ==
    IF resp.kind = "neterror" \/ RaisesForStatus(resp.status) THEN 2 ELSE 1

\* how often _api_request calls session.request: once, whatever the answer
Attempts(resp) == 1

NoApiLast == [method |-> None, resp |-> NetError,
              result |-> [raised |-> FALSE, exc |-> NoExc, value |-> None]]

InitReq ==
    /\ api_calls = 0
    /\ transport_calls = 0
    /\ api_last = NoApiLast

\* self._api_request(method, "contacts", api_path) answered with resp
ApiRequestCall(method, resp) ==
    /\ api_calls < MaxCalls
    /\ api_calls' = api_calls + 1
    /\ transport_calls' = transport_calls + Attempts(resp)
    /\ api_last' = [method |-> method, resp |-> resp, result |-> ApiResult(resp)]
    /\ UNCHANGED <<pagedVars, crudVars>>

NextReq == \E m \in Methods, resp \in AnyAnswers : ApiRequestCall(m, resp)

(***************************************************************************)
(* The client against FakeContactsApi, wired as the tests wire it.         *)
(***************************************************************************)
Host == "http://example.com"

\* TestContactsApiClient.API_URL, the prefix the fake server is mounted at
API_URL == <<Host, "/", "go", "/", "contacts">>

\* the api_url values a client is made with: the tests' API_URL, the same
\* with a trailing slash, and the API root, of which API_URL is the contacts
\* collection
ApiUrls == {API_URL, API_URL \o <<"/">>, <<Host, "/", "go">>}

\* TestContactsApiClient.AUTH_TOKEN and the token of test_auth_failure
AUTH_TOKEN == "auth_token"
Tokens == {AUTH_TOKEN, "bogus_token"}

\* keys made by uuid4().hex, and the key a caller makes up
Uuids == {"u1", "u2"}
ContactKeys == Uuids \union {"foo"}

Names == {"Arthur"}

\* contact_data of a caller: with or without a "key" field
ContactData ==
    {[haskey |-> FALSE, key |-> None, name |-> n] : n \in Names}
    \union {[haskey |-> TRUE, key |-> "foo", name |-> n] : n \in Names}

Absent == [key |-> None, name |-> None]

\* make_contact_dict(fields) with uuid4().hex = uuid: a generated key that
\* fields may override
make_contact_dict(fields, uuid) ==
    [key |-> IF fields.haskey THEN fields.key ELSE uuid, name |-> fields.name]

\* the uuid4 values that are new to the store
FreshUuids(store) == {u \in Uuids : store[u] = Absent}

\* session.mount(API_URL, adapter): the adapter gets the URLs with this prefix
Mounted(url) == StartsWith(url, API_URL)

\* request.path_url: the URL without scheme and host
path_url(url) == Tail(url)

\* mutant: any Authorization header is accepted
check_auth_any(req) == req.auth[1] = "Bearer"

\* FakeContactsApi.check_auth
check_auth(req) == req.auth = <<"Bearer", AUTH_TOKEN>>

\* contact_key = request.path_url.replace("/go/contacts", "").lstrip("/")
contact_key(req) ==
    LStrip(Remove(path_url(req.url), <<"/", "go", "/", "contacts">>))

\* self.contacts_data.get(contact_key)
StoreGet(store, ck) ==
    IF Len(ck) = 1 /\ ck[1] \in ContactKeys THEN store[ck[1]] ELSE Absent

Answer(resp, store) == [resp |-> resp, store |-> store]

\* FakeContactsApi.create_contact
create_contact(store, req) ==
    LET contact_data == req.data.value IN
    IF contact_data.haskey
    THEN {Answer(Response(400, BadBody), store)}
    ELSE {LET contact == make_contact_dict(contact_data, u) IN
          Answer(Response(200, JsonBody(contact)),
                 [store EXCEPT ![contact.key] = contact]) :
            u \in FreshUuids(store)}

\* FakeContactsApi.get_contact
get_contact(store, ck) ==
    LET contact == StoreGet(store, ck) IN
    IF contact = Absent
    THEN {Answer(Response(404, BadBody), store)}
    ELSE {Answer(Response(200, JsonBody(contact)), store)}

\* FakeContactsApi.delete_contact
delete_contact(store, ck) ==
    LET contact == StoreGet(store, ck) IN
    IF contact = Absent
    THEN {Answer(Response(404, BadBody), store)}
    ELSE {Answer(Response(200, JsonBody(contact)),
                 [store EXCEPT ![ck[1]] = Absent])}

\* FakeContactsApi.handle_request: the answers to a request, each with the
\* store after it
handle_request(store, req) ==
    IF ~check_auth(req) THEN {Answer(Response(403, BadBody), store)}
    ELSE IF contact_key(req) = <<>>
    THEN IF req.method = "POST" THEN create_contact(store, req)
         ELSE {Answer(Response(405, BadBody), store)}
    ELSE IF req.method = "GET" THEN get_contact(store, contact_key(req))
    ELSE IF req.method = "DELETE" THEN delete_contact(store, contact_key(req))
    ELSE {Answer(Response(405, BadBody), store)}

NoClient == [auth_token |-> None, api_url |-> <<>>]
EmptyStore == [k \in ContactKeys |-> Absent]

\* no operation made yet
NoLast == [op |-> None, arg |-> None,
           req |-> [method |-> None, url |-> <<>>, auth |-> <<>>,
                    data |-> BadBody],
           result |-> [raised |-> FALSE, exc |-> NoExc, value |-> Absent],
           before |-> EmptyStore, after |-> EmptyStore]

InitCrud ==
    /\ contacts_data = EmptyStore
    /\ client = NoClient
    /\ last = NoLast

\* make_client(auth_token) and ContactsApiClient.__init__
MakeClient(token, url) ==
    /\ client' = [auth_token |-> token, api_url |-> RStrip(url)]
    /\ UNCHANGED <<contacts_data, last>>
    /\ UNCHANGED <<pagedVars, reqVars>>

\* make_existing_contact(contact_data): the test puts a contact in the store
MakeExistingContact(fields) ==
    /\ \E u \in Uuids :
         /\ fields.haskey \/ u \in FreshUuids(contacts_data)
         /\ LET existing_contact == make_contact_dict(fields, u) IN
            contacts_data' =
              [contacts_data EXCEPT ![existing_contact.key] = existing_contact]
    /\ UNCHANGED <<client, last>>
    /\ UNCHANGED <<pagedVars, reqVars>>

\* what an operation hands to its caller: the exception of _api_request, or
\* the decoded value (Absent stands for no value)
Outcome(res) ==
    IF res.raised THEN [raised |-> TRUE, exc |-> res.exc, value |-> Absent]
    ELSE res

\* mutant: an empty result list is answered with no contact instead of an error
FirstOfDataOrNone(res) ==
    IF res.raised THEN Outcome(res)
    ELSE IF res.value.data = <<>>
    THEN [raised |-> FALSE, exc |-> NoExc, value |-> Absent]
    ELSE [raised |-> FALSE, exc |-> NoExc, value |-> res.value.data[1]]

\* return contact.get('data')[0]
FirstOfData(res) ==
    IF res.raised THEN Outcome(res)
    ELSE IF res.value.data = <<>>
    THEN [raised |-> TRUE,
          exc |-> [type |-> "IndexError", status |-> 0, cursor |-> None],
          value |-> Absent]
    ELSE [raised |-> FALSE, exc |-> NoExc, value |-> res.value.data[1]]

\* one operation of the client: one _api_request through the session to the
\* fake server, and what the operation makes of the outcome
Call(op, arg, method, api_collection, api_path, data, params) ==
    LET req == ApiRequest(client.api_url, client.auth_token, method,
                          api_collection, api_path, data, params)
    IN  /\ client # NoClient
        /\ Mounted(req.url)
        /\ \E a \in handle_request(contacts_data, req) :
             LET res == ApiResult(a.resp) IN
             /\ contacts_data' = a.store
             /\ last' = [op |-> op, arg |-> arg, req |-> req,
                         result |-> IF op = "get_contact_from_field"
                                    THEN FirstOfData(res) ELSE Outcome(res),
                         before |-> contacts_data, after |-> a.store]
        /\ UNCHANGED client
        /\ UNCHANGED <<pagedVars, reqVars>>

\* the first next() of contacts(start_cursor): the first page request
ListContacts(sc) ==
    Call("contacts", sc, "GET", "contacts", FirstPath(sc), NoData, NoParams)

CreateContact(contact_data) ==
    Call("create_contact", None, "POST", "contacts", <<>>, contact_data, NoParams)

GetContact(key) ==
    Call("get_contact", key, "GET", "contacts", <<key>>, NoData, NoParams)

GetContactFromField(field, value) ==
    Call("get_contact_from_field", None, "GET", "contacts", <<>>, NoData,
         <<field, "=", value>>)

UpdateContact(key, update_data) ==
    Call("update_contact", key, "PUT", "contacts", <<key>>, update_data, NoParams)

DeleteContact(key) ==
    Call("delete_contact", key, "DELETE", "contacts", <<key>>, NoData, NoParams)

CreateGroup(group_data) ==
    Call("create_group", None, "POST", "groups", <<>>, group_data, NoParams)

GetGroup(key) ==
    Call("get_group", key, "GET", "groups", <<key>>, NoData, NoParams)

UpdateGroup(key, update_data) ==
    Call("update_group", key, "PUT", "groups", <<key>>, update_data, NoParams)

DeleteGroup(key) ==
    Call("delete_group", key, "DELETE", "groups", <<key>>, NoData, NoParams)

NextCrud ==
    \/ \E t \in Tokens, u \in ApiUrls : MakeClient(t, u)
    \/ \E d \in ContactData : MakeExistingContact(d)
    \/ \E sc \in StartCursors : ListContacts(sc)
    \/ \E d \in ContactData : CreateContact(d)
    \/ \E k \in ContactKeys : GetContact(k)
    \/ GetContactFromField("msisdn", "+1555")
    \/ \E k \in ContactKeys, d \in ContactData : UpdateContact(k, d)
    \/ \E k \in ContactKeys : DeleteContact(k)
    \/ \E d \in ContactData : CreateGroup(d)
    \/ \E k \in ContactKeys : GetGroup(k)
    \/ \E k \in ContactKeys, d \in ContactData : UpdateGroup(k, d)
    \/ \E k \in ContactKeys : DeleteGroup(k)

(***************************************************************************)
(* The lookup by field against a server that answers the query: a list     *)
(* request with ?query=field=value gets {"data": [...], "cursor": null}    *)
(* with the stored contacts whose field has that value, in server order.   *)
(***************************************************************************)
\* the fields a lookup names and the values it asks for
QueryFields == {"name", "key"}
QueryValues == Names \union {"Bors", "foo"}

\* the order in which the server lists its contacts
ServerOrder == <<"foo", "u1", "u2">>

\* the (field, value) of a list request's query parameter
QueryOf(url) == <<url[Len(url) - 2], url[Len(url)]>>

FieldOf(contact, field) == IF field = "key" THEN contact.key ELSE contact.name

\* the stored contacts whose field has the value, in server order
Matches(store, field, value) ==
    LET hit(k) == store[k] # Absent /\ FieldOf(store[k], field) = value
        keys == SelectSeq(ServerOrder, hit)
    IN  [i \in 1..Len(keys) |-> store[keys[i]]]

\* the answers of the query server to a lookup request
query_server(store, req) ==
    IF ~check_auth(req) THEN {Answer(Response(403, BadBody), store)}
    ELSE LET q == QueryOf(req.url) IN
         {Answer(Response(200, JsonBody([data |-> Matches(store, q[1], q[2]),
                                         cursor |-> None])), store)}

\* get_contact_from_field(field, value) against the query server
LookupContact(field, value) ==
    LET req == ApiRequest(client.api_url, client.auth_token, "GET",
                          "contacts", <<>>, NoData, <<field, "=", value>>)
    IN  /\ client # NoClient
        /\ \E a \in query_server(contacts_data, req) :
             /\ contacts_data' = a.store
             /\ last' = [op |-> "get_contact_from_field", arg |-> None,
                         req |-> req,
                         result |-> FirstOfData(ApiResult(a.resp)),
                         before |-> contacts_data, after |-> a.store]
        /\ UNCHANGED client
        /\ UNCHANGED <<pagedVars, reqVars>>

NextQuery ==
    \/ \E t \in Tokens, u \in ApiUrls : MakeClient(t, u)
    \/ \E d \in ContactData : MakeExistingContact(d)
    \/ \E f \in QueryFields, v \in QueryValues : LookupContact(f, v)

(***************************************************************************)
(* Specifications.                                                         *)
(***************************************************************************)
Init == InitPaged /\ InitReq /\ InitCrud

\* the paginated download against the paged server
SpecPaged == Init /\ [][NextPaged]_vars

\* _api_request against any transport
SpecReq == Init /\ [][NextReq]_vars

\* the client against the fake contacts server
SpecCrud == Init /\ [][NextCrud]_vars

\* the lookup by field against the query server
SpecQuery == Init /\ [][NextQuery]_vars

(***************************************************************************)
(* Definitions the claims are stated with.                                 *)
(***************************************************************************)
RECURSIVE Chain(_, _, _)
\* the names of the pages from page c on, following the cursors the server
\* returns, as far as they are served and at most fuel many
Chain(s, c, fuel) ==
    IF fuel = 0 \/ ~s[c].known THEN <<>>
    ELSE <<c>> \o (IF s[c].cursor = None THEN <<>>
                   ELSE Chain(s, s[c].cursor, fuel - 1))

ChainFrom(c) == Chain(srv, c, Cardinality(PageKeys))

\* the server serves a collection of N >= 1 pages from page c on, the last
\* page returning a null cursor
WellChained(c) ==
    LET ch == ChainFrom(c) IN ch # <<>> /\ srv[ch[Len(ch)]].cursor = None

RECURSIVE Concat(_)
Concat(ss) == IF ss = <<>> THEN <<>> ELSE Head(ss) \o Concat(Tail(ss))

\* all items of the collection from page c on, in server order
AllItems(c) == LET ch == ChainFrom(c) IN Concat([i \in 1..Len(ch) |-> srv[ch[i]].data])

\* the cursor parameters of the requests made so far
Params == [i \in 1..Len(reqs) |-> CursorParam(reqs[i].url)]

NoDup(q) == \A i, j \in 1..Len(q) : i # j => q[i] # q[j]

\* C1: against a server that serves the collection as N >= 1 correctly
\* chained pages, a contacts() call that is consumed to its end has yielded
\* exactly the concatenation of all pages' items in server order and has
\* made exactly N page requests, one per page in chain order.
TheoremC1 ==
    (pc = "done" /\ start_cursor = None) =>
        /\ WellChained(None)
        /\ out = AllItems(None)
        /\ Len(reqs) = Len(ChainFrom(None))
        /\ Params = ChainFrom(None)

WitnessC1 ==
    /\ pc = "done" /\ start_cursor = None /\ run = "first"
    /\ Len(reqs) = 3 /\ Len(out) >= 4

\* the cursor that was used for the last request of this call
UsedCursor ==
    IF Len(reqs) = 1 THEN start_cursor ELSE recv[Len(recv)].cursor

\* C2: whenever a page fetch of contacts() fails, the iteration ends with a
\* PagedException whose cursor is the cursor used for the failed request.
ClaimC2 ==
    pc = "failed" =>
        /\ exc.type = "PagedException"
        /\ exc.cursor = UsedCursor

\* C3: contacts() is pull-based: no request before the consumer asks for the
\* first item; a request is made only while the consumer is asking for an
\* item it has not been given and every item of the page before has been
\* yielded; after the first item of a collection whose first page has items,
\* exactly one request has been made however many pages follow.
TheoremC3 ==
    /\ [](asked = 0 => reqs = <<>>)
    /\ []((asked = 1 /\ recv # <<>> /\ recv[1].data # <<>>) => Len(reqs) = 1)
    /\ [][Len(reqs') > Len(reqs) =>
            /\ running
            /\ asked = Len(out) + 1
            /\ idx = Len(page.data)
            /\ Len(reqs') = Len(reqs) + 1]_vars

WitnessC3 ==
    /\ asked = 1 /\ ~running /\ Len(out) = 1
    /\ recv[1].cursor # None /\ Len(recv[1].data) = 1
    /\ Len(reqs) = 1

\* C4: once the items of a page are yielded, the sequence ends if and only if
\* the page's cursor is null, whether or not the page has items: a null
\* cursor ends it with no further request, a non-null cursor is followed by
\* the request for that cursor.
TheoremC4 ==
    /\ [][(running /\ pc = "loop" /\ idx = Len(page.data)) =>
            /\ page.cursor = None => (pc' = "done" /\ reqs' = reqs)
            /\ page.cursor # None =>
                 /\ pc' # "done"
                 /\ Len(reqs') = Len(reqs) + 1
                 /\ CursorParam(reqs'[Len(reqs')].url) = page.cursor]_vars
    /\ [][(pc' = "done" /\ pc # "done") =>
            (idx = Len(page.data) /\ page.cursor = None)]_vars

WitnessC4 ==
    /\ pc = "done" /\ page.data # <<>>
    /\ \E i \in 1..(Len(recv) - 1) : recv[i].data = <<>> /\ recv[i].cursor # None

\* C5: resumption is lossless: when a first call failed and the call resumed
\* from the cursor the failure reports has run to its end, the items of the
\* first call followed by the items of the second are exactly the collection.
ClaimC5 ==
    (run = "resumed" /\ pc = "done" /\ first.start = None) =>
        first.out \o out = AllItems(None)

\* C6 as stated: within one call no cursor value is sent in more than one
\* request and no item is yielded twice, whatever the server answers.
ClaimC6 == NoDup(Params) /\ NoDup(out)

\* the non-null cursors the server has returned to this call
Returned ==
    LET nn == {i \in 1..Len(recv) : recv[i].cursor # None}
    IN  {recv[i].cursor : i \in nn}

\* the server has not returned a cursor twice, nor the cursor it was first sent
ServerNeverRepeats ==
    /\ \A i, j \in 1..Len(recv) :
         (i # j /\ recv[i].cursor # None) => recv[i].cursor # recv[j].cursor
    /\ reqs # <<>> => Params[1] \notin Returned

\* C6 amended: every request after the first carries the cursor of the
\* response before it and is made only after all items of that page were
\* yielded; so when the server never returns a cursor that was already sent
\* in this call, no cursor is sent twice and no item is yielded twice.
TheoremC6 ==
    /\ Len(recv) <= Len(reqs) /\ Len(reqs) <= Len(recv) + 1
    /\ \A k \in 2..Len(reqs) : Params[k] = recv[k - 1].cursor
    /\ out = Concat([i \in 1..(Len(recv) - 1) |-> recv[i].data])
               \o SubSeq(page.data, 1, idx)
    /\ ServerNeverRepeats => (NoDup(Params) /\ NoDup(out))

WitnessC6 ==
    /\ pc = "done" /\ ServerNeverRepeats
    /\ Len(reqs) = 3 /\ Len(out) >= 3


Authorized == last.req.auth = <<"Bearer", AUTH_TOKEN>>

\* C8: create_contact with data that holds a "key" fails with HTTPError 400
\* and leaves the server's contact store as it was.
ClaimC8 ==
    (last.op = "create_contact" /\ Authorized /\ last.req.data.value.haskey) =>
        /\ last.result.raised
        /\ last.result.exc = HTTPError(400)
        /\ last.after = last.before

\* C9: delete_contact(key) of an existing contact returns the record stored
\* under the key and removes it, leaving the other contacts as they were.
ClaimC9 ==
    (last.op = "delete_contact" /\ Authorized /\ last.before[last.arg] # Absent) =>
        /\ ~last.result.raised
        /\ last.result.value = last.before[last.arg]
        /\ last.after = [last.before EXCEPT ![last.arg] = Absent]

\* C10: every operation of a client whose bearer token is not the server's
\* fails with HTTPError 403, whatever the endpoint, method and arguments, and
\* leaves the server's contact store as it was.
TheoremC10 ==
    (last.op # None /\ ~Authorized) =>
        /\ last.result.raised
        /\ last.result.exc = HTTPError(403)
        /\ last.after = last.before

WitnessC10 ==
    /\ last.op = "delete_contact" /\ ~Authorized
    /\ client.api_url = <<Host, "/", "go">>
    /\ last.before[last.arg] # Absent
    /\ last.result.exc = HTTPError(403)

\* the list the server gave to the last lookup
LookedUp ==
    LET q == QueryOf(last.req.url) IN Matches(last.before, q[1], q[2])

\* C11: get_contact_from_field returns the first record of the server's
\* filtered result list when the list is not empty (the one match when there
\* is exactly one) and fails with an IndexError, returning nothing, when the
\* list is empty.
TheoremC11 ==
    (last.op = "get_contact_from_field" /\ Authorized) =>
        /\ LookedUp # <<>> =>
             (~last.result.raised /\ last.result.value = LookedUp[1])
        /\ LookedUp = <<>> =>
             (last.result.raised /\ last.result.exc.type = "IndexError"
              /\ last.result.value = Absent)

\* a lookup with several matches answered with the first of them
WitnessC11 ==
    /\ last.op = "get_contact_from_field" /\ Authorized
    /\ Len(LookedUp) >= 2
    /\ ~last.result.raised
    /\ last.result.value = LookedUp[1]

\* C12: every page request of contacts(start_cursor) carries exactly the
\* cursor in effect: the first request carries cursor=start_cursor whenever a
\* start_cursor is supplied, the empty string included, and no cursor
\* parameter only when start_cursor is absent; each later request carries,
\* unmodified, the cursor of the page received just before it.
ClaimC12 ==
    /\ reqs # <<>> => Params[1] = start_cursor
    /\ \A k \in 2..Len(reqs) : k - 1 <= Len(recv) => Params[k] = recv[k - 1].cursor

=============================================================================
